---- MODULE Spec2Model ----
(***************************************************************************)
(* Mindminer: content-based movie recommendation.                          *)
(*   src/src/training/recommender.py  the load-once model and recommend    *)
(*   src/src/evaluation/metrics.py    the evaluation metrics               *)
(*                                                                         *)
(* Conventions of the model                                                *)
(*  - Python positions are 0-based, TLA+ sequences 1-based: catalog row i  *)
(*    of the model is row i-1 of the data frame.  Orders are unaffected.   *)
(*  - A float that the code obtains by one division of two small integers  *)
(*    is kept as the reduced fraction <<num, den>>; two such floats are    *)
(*    equal exactly when the fractions are.                                *)
(*  - A cosine similarity is kept as the reduced fraction of its SQUARE    *)
(*    (dot^2 / (|u|^2 |v|^2)); count vectors are non-negative, so the      *)
(*    order and the ties of the squares are those of the cosines.          *)
(*  - The tags of a catalog row are kept as the count vector that          *)
(*    stemming and CountVectorizer produce for it.                         *)
(***************************************************************************)
EXTENDS Integers, Sequences, FiniteSets, TLC

VARIABLES
    csv,          \* the catalog stored at DATA_PATH
    _new_df,      \* module global: the loaded catalog, or None
    _similarity,  \* module global: the similarity matrix, or None
    builds,       \* how many times the body of _load_model (lines 21-32) ran
    ret,          \* the last sequential call of recommend and what it returned
    pc,           \* per thread: the position inside recommend
    frame,        \* per thread: the locals of the running call
    args,         \* the arguments of the metric functions under evaluation
    val           \* the values the metric functions returned for args

vars == <<csv, _new_df, _similarity, builds, ret, pc, frame, args, val>>

\* Python's None in a global that otherwise holds a non-empty table
None == << >>

\* the value of a variable that a specification does not use
Unused == "unused"

\* ret before the first call
NoCall == [called |-> FALSE]

(***************************************************************************)
(* Bounds of the model.                                                    *)
(***************************************************************************)
MaxN == 3        \* rows of the catalog
MaxK == 2        \* top_k ranges over -MaxK .. MaxK
NThreads == 2    \* concurrent callers of recommend
MaxRec == 2      \* length of a recommended list given to a metric
MaxTagLen == 3   \* characters of a tag string given to the relevance judge

(***************************************************************************)
(* Arithmetic helpers.                                                     *)
(***************************************************************************)
RECURSIVE GCD(_, _)
GCD(a, b) == IF b = 0 THEN a ELSE GCD(b, a % b)

\* the float n / d of two small naturals, d > 0, as a reduced fraction
Frac(n, d) == LET g == GCD(n, d) IN <<n \div g, d \div g>>

Zero == <<0, 1>>
One == <<1, 1>>

\* a < b and a >= b on fractions with positive denominators
FracLess(a, b) == a[1] * b[2] < b[1] * a[2]

Min(a, b) == IF a < b THEN a ELSE b
Max(a, b) == IF a > b THEN a ELSE b

(***************************************************************************)
(* Python's list slice s[start:stop] (step 1): a negative bound counts     *)
(* from the end, and both bounds are clamped to the list.                  *)
(***************************************************************************)
PySliceBound(n, len) == IF n < 0 THEN Max(n + len, 0) ELSE Min(n, len)

PySlice(s, start, stop) ==
    LET lo == PySliceBound(start, Len(s))
        hi == PySliceBound(stop, Len(s))
    IN  IF lo >= hi THEN << >> ELSE SubSeq(s, lo + 1, hi)

(***************************************************************************)
(* The catalog.                                                            *)
(***************************************************************************)
\* f"Movie not found: '{movie}'"
NotFoundMessage(movie) == "Movie not found: '" \o movie \o "'"

\* the strings a title column holds; a title is free text
Titles == {"A", NotFoundMessage("B")}

\* the strings recommend is called with
Movies == Titles \cup {"B"}

\* count vectors over a vocabulary of two stemmed tokens
TagVectors == {<<0, 0>>, <<1, 0>>, <<1, 1>>}

Rows == [title : Titles, tags : TagVectors]

\* CountVectorizer.fit_transform raises on a corpus without any token, so a
\* catalog that loads has a row with a token
Loadable(df) == \E i \in 1..Len(df) : df[i].tags # <<0, 0>>

Catalogs == {df \in UNION {[1..n -> Rows] : n \in 1..MaxN} : Loadable(df)}

Dot(u, v) == u[1] * v[1] + u[2] * v[2]

\* sklearn cosine_similarity: rows are normalised (a zero row stays zero),
\* then multiplied; the entry is kept as its square
Cosine2(u, v) ==
    IF Dot(u, u) = 0 \/ Dot(v, v) = 0 THEN Zero
    ELSE Frac(Dot(u, v) * Dot(u, v), Dot(u, u) * Dot(v, v))

cosine_similarity(df) ==
    [i \in 1..Len(df) |-> [j \in 1..Len(df) |-> Cosine2(df[i].tags, df[j].tags)]]

(***************************************************************************)
(* sorted(enumerate(distances), key=lambda x: x[1], reverse=True)          *)
(* Python's sort is stable, also under reverse=True: elements with equal   *)
(* keys keep the order of the input.                                       *)
(***************************************************************************)
enumerate(distances) == [i \in 1..Len(distances) |-> <<i, distances[i]>>]

\* insert x behind every element whose key is >= the key of x
RECURSIVE InsertDesc(_, _)
InsertDesc(x, s) ==
    IF s = << >> THEN <<x>>
    ELSE IF FracLess(Head(s)[2], x[2]) THEN <<x>> \o s
    ELSE <<Head(s)>> \o InsertDesc(x, Tail(s))

RECURSIVE SortedDescFrom(_, _, _)
SortedDescFrom(pairs, i, acc) ==
    IF i > Len(pairs) THEN acc
    ELSE SortedDescFrom(pairs, i + 1, InsertDesc(pairs[i], acc))

\* a sort that is not stable under reverse=True (sorted(...)[::-1]): elements
\* with equal keys come out in the reverse of the input order
RECURSIVE InsertDescTiesFirst(_, _)
InsertDescTiesFirst(x, s) ==
    IF s = << >> THEN <<x>>
    ELSE IF ~FracLess(x[2], Head(s)[2]) THEN <<x>> \o s
    ELSE <<Head(s)>> \o InsertDescTiesFirst(x, Tail(s))

RECURSIVE SortedTiesReversedFrom(_, _, _)
SortedTiesReversedFrom(pairs, i, acc) ==
    IF i > Len(pairs) THEN acc
    ELSE SortedTiesReversedFrom(pairs, i + 1, InsertDescTiesFirst(pairs[i], acc))

sorted_ties_reversed(pairs) == SortedTiesReversedFrom(pairs, 1, << >>)

sorted_reverse(pairs) == SortedDescFrom(pairs, 1, << >>)

(***************************************************************************)
(* recommend, lines 37-45, on a loaded model.                              *)
(***************************************************************************)
\* _new_df[_new_df["title"] == movie].index
Match(df, movie) == {i \in 1..Len(df) : df[i].title = movie}

MinOf(S) == CHOOSE x \in S : \A y \in S : x <= y

\* lines 41-44: the (index, distance) pairs kept
Ranked(df, sim, movie_index, top_k) ==
    PySlice(sorted_reverse(enumerate(sim[movie_index])), 1, top_k + 1)

RankedTitles(df, ranked) == [p \in 1..Len(ranked) |-> df[ranked[p][1]].title]

\* the outcome of lines 37-45
RecommendBody(df, sim, movie, top_k) ==
    IF Match(df, movie) = {}
    THEN [found |-> FALSE, movie_index |-> 0, ranked |-> << >>,
          result |-> <<NotFoundMessage(movie)>>]
    ELSE LET movie_index == MinOf(Match(df, movie))
             ranked == Ranked(df, sim, movie_index, top_k)
         IN  [found |-> TRUE, movie_index |-> movie_index, ranked |-> ranked,
              result |-> RankedTitles(df, ranked)]

(***************************************************************************)
(* Sequential use: every call of recommend runs to its return.             *)
(***************************************************************************)
\* _load_model without the check of line 19: every call loads again
LoadModelAlways ==
    /\ _new_df' = csv
    /\ _similarity' = cosine_similarity(csv)
    /\ builds' = builds + 1

\* _load_model, lines 17-32, run without interruption
LoadModel ==
    IF _new_df # None
    THEN UNCHANGED <<_new_df, _similarity, builds>>
    ELSE /\ _new_df' = csv
         /\ _similarity' = cosine_similarity(csv)
         /\ builds' = builds + 1

Recommend(movie, top_k) ==
    /\ LoadModel
    /\ ret' = [called |-> TRUE, movie |-> movie, top_k |-> top_k,
                loaded_before |-> _new_df # None]
              @@ RecommendBody(_new_df', _similarity', movie, top_k)
    /\ UNCHANGED <<csv, pc, frame, args, val>>

\* the environment rewrites the file at DATA_PATH: only its first row is kept
CatalogFileRewritten ==
    /\ Len(csv) > 1
    /\ Loadable(SubSeq(csv, 1, 1))
    /\ csv' = SubSeq(csv, 1, 1)
    /\ UNCHANGED <<_new_df, _similarity, builds, ret, pc, frame, args, val>>

Init ==
    /\ csv \in Catalogs
    /\ _new_df = None
    /\ _similarity = None
    /\ builds = 0
    /\ ret = NoCall
    /\ pc = Unused
    /\ frame = Unused
    /\ args = Unused
    /\ val = Unused

Next ==
    \/ \E movie \in Movies, top_k \in (-MaxK)..MaxK : Recommend(movie, top_k)
    \/ CatalogFileRewritten

Spec == Init /\ [][Next]_vars

(***************************************************************************)
(* Properties of sequential recommend calls (specification Spec).          *)
(***************************************************************************)
TopKs == (-MaxK)..MaxK

\* the catalog indices recommend returned titles for, in the order returned
RankedIndices == [p \in 1..Len(ret.ranked) |-> ret.ranked[p][1]]

\* the similarity of catalog item i to the query of the last call
SimToQuery(i) == _similarity[ret.movie_index][i]

\* C1: for every catalog, every title of the catalog and every top_k, the
\* list recommend returns never contains the index of the query item.
C1_NeverReturnsQuery ==
    (ret.called /\ ret.found) =>
        \A p \in 1..Len(RankedIndices) : RankedIndices[p] # ret.movie_index

\* C2: for every title of the catalog, recommend called with top_k <= 0
\* (zero and every negative value) returns the empty list.
C2_NonPositiveKReturnsEmpty ==
    (ret.called /\ ret.found /\ ret.top_k <= 0) => ret.result = << >>

\* C3: when the title matches no catalog item, recommend does not raise and
\* what it returns differs from the result of every successful call (a
\* sequence of catalog titles) on the same model.
C3_NotFoundTellsApart ==
    (ret.called /\ ~ret.found) =>
        \A movie \in Movies, top_k \in TopKs :
            LET ok == RecommendBody(_new_df, _similarity, movie, top_k)
            IN  ok.found => ok.result # ret.result

C9_DescendingTiesByIndex ==
    (ret.called /\ ret.found) =>
        \A p, q \in 1..Len(RankedIndices) :
            p < q =>
                /\ ~FracLess(SimToQuery(RankedIndices[p]), SimToQuery(RankedIndices[q]))
                /\ SimToQuery(RankedIndices[p]) = SimToQuery(RankedIndices[q])
                       => RankedIndices[p] < RankedIndices[q]

\* three items, the first is queried, the other two are equally similar to
\* it (and less than it is to itself), and both are returned
C9_Witness ==
    /\ ret.called
    /\ ret.found
    /\ Len(_new_df) = 3
    /\ ret.movie_index = 1
    /\ RankedIndices = <<2, 3>>
    /\ SimToQuery(2) = SimToQuery(3)
    /\ FracLess(Zero, SimToQuery(2))
    /\ FracLess(SimToQuery(2), SimToQuery(1))

(***************************************************************************)
(* Concurrent use: threads call recommend on a fresh module and may be     *)
(* switched between any two statements (specification SpecThreads).        *)
(* pc[t] names the line thread t executes next.                            *)
(***************************************************************************)
Threads == 1..NThreads

\* def recommend(movie: str, top_k: int = 5)
DefaultTopK == 5

\* the catalogs of the concurrent scenario: two rows of different titles
ThreadCatalogs == {df \in Catalogs : Len(df) = 2 /\ df[1].title # df[2].title}

NoFrame == [movie |-> "", top_k |-> 0, new_df |-> None, movie_index |-> 0,
            distances |-> << >>, result |-> << >>]

\* a caller enters recommend(movie) and, at line 36, _load_model
Call(t, movie) ==
    /\ pc[t] = "idle"
    /\ frame' = [frame EXCEPT ![t] = [NoFrame EXCEPT !.movie = movie,
                                                     !.top_k = DefaultTopK]]
    /\ pc' = [pc EXCEPT ![t] = "line19"]
    /\ UNCHANGED <<csv, _new_df, _similarity, builds, ret, args, val>>

\* lines 19-20: if _new_df is not None: return
Line19(t) ==
    /\ pc[t] = "line19"
    /\ pc' = [pc EXCEPT ![t] = IF _new_df # None THEN "line37" ELSE "line21"]
    /\ UNCHANGED <<csv, _new_df, _similarity, builds, ret, frame, args, val>>

\* lines 21-30: the local new_df is read, stemmed and vectorised
Line21(t) ==
    /\ pc[t] = "line21"
    /\ frame' = [frame EXCEPT ![t].new_df = csv]
    /\ pc' = [pc EXCEPT ![t] = "line31"]
    /\ UNCHANGED <<csv, _new_df, _similarity, builds, ret, args, val>>

\* line 31: _new_df = new_df
Line31(t) ==
    /\ pc[t] = "line31"
    /\ _new_df' = frame[t].new_df
    /\ pc' = [pc EXCEPT ![t] = "line32"]
    /\ UNCHANGED <<csv, _similarity, builds, ret, frame, args, val>>

\* line 32: _similarity = cosine_similarity(vectors)
Line32(t) ==
    /\ pc[t] = "line32"
    /\ _similarity' = cosine_similarity(frame[t].new_df)
    /\ builds' = builds + 1
    /\ pc' = [pc EXCEPT ![t] = "line37"]
    /\ UNCHANGED <<csv, _new_df, ret, frame, args, val>>

\* lines 37-40: the title is looked up in _new_df
Line37(t) ==
    /\ pc[t] = "line37"
    /\ IF Match(_new_df, frame[t].movie) = {}
       THEN /\ frame' = [frame EXCEPT
                            ![t].result = <<NotFoundMessage(frame[t].movie)>>]
            /\ pc' = [pc EXCEPT ![t] = "returned"]
       ELSE /\ frame' = [frame EXCEPT
                            ![t].movie_index = MinOf(Match(_new_df, frame[t].movie))]
            /\ pc' = [pc EXCEPT ![t] = "line41"]
    /\ UNCHANGED <<csv, _new_df, _similarity, builds, ret, args, val>>

\* line 41: distances = _similarity[movie_index]; indexing None raises
\* TypeError
Line41(t) ==
    /\ pc[t] = "line41"
    /\ IF _similarity = None
       THEN /\ pc' = [pc EXCEPT ![t] = "raised"]
            /\ UNCHANGED frame
       ELSE /\ frame' = [frame EXCEPT
                            ![t].distances = _similarity[frame[t].movie_index]]
            /\ pc' = [pc EXCEPT ![t] = "line42"]
    /\ UNCHANGED <<csv, _new_df, _similarity, builds, ret, args, val>>

\* lines 42-45: the row is ranked and the titles are returned
Line42(t) ==
    /\ pc[t] = "line42"
    /\ frame' = [frame EXCEPT ![t].result =
           RankedTitles(_new_df,
               PySlice(sorted_reverse(enumerate(frame[t].distances)),
                       1, frame[t].top_k + 1))]
    /\ pc' = [pc EXCEPT ![t] = "returned"]
    /\ UNCHANGED <<csv, _new_df, _similarity, builds, ret, args, val>>

\* the caller takes the result or the exception and is free to call again
Leave(t) ==
    /\ pc[t] \in {"returned", "raised"}
    /\ pc' = [pc EXCEPT ![t] = "idle"]
    /\ frame' = [frame EXCEPT ![t] = NoFrame]
    /\ UNCHANGED <<csv, _new_df, _similarity, builds, ret, args, val>>

InitThreads ==
    /\ csv \in ThreadCatalogs
    /\ _new_df = None
    /\ _similarity = None
    /\ builds = 0
    /\ ret = NoCall
    /\ pc = [t \in Threads |-> "idle"]
    /\ frame = [t \in Threads |-> NoFrame]
    /\ args = Unused
    /\ val = Unused

NextThreads ==
    \E t \in Threads :
        \/ \E movie \in Movies : Call(t, movie)
        \/ Line19(t)
        \/ Line21(t)
        \/ Line31(t)
        \/ Line32(t)
        \/ Line37(t)
        \/ Line41(t)
        \/ Line42(t)
        \/ Leave(t)

SpecThreads == InitThreads /\ [][NextThreads]_vars

\* C6: in every interleaving of concurrent recommend calls on a fresh
\* module, a caller that has seen the catalog as loaded also sees the
\* similarity matrix set when it indexes it: no call indexes an unset matrix.
C6_NeverIndexesUnsetMatrix ==
    \A t \in Threads :
        /\ pc[t] = "line41" => _similarity # None
        /\ pc[t] # "raised"

(***************************************************************************)
(* The evaluation metrics (specification SpecMetrics).  They are pure      *)
(* functions: args holds the arguments, drawn by the initial state, and    *)
(* each action stores in val what one function returns for them.           *)
(*  - item indices are Python's: 0-based                                   *)
(*  - Optional[int] k: << >> is None, <<n>> is the integer n               *)
(*  - a tag string is the sequence of its characters                       *)
(*  - a relevance grade g stands for the float g / 2                       *)
(***************************************************************************)
Items == 0..MaxRec

NoneK == << >>

Ks == {NoneK} \cup {<<n>> : n \in 0..(MaxRec + 1)}

RecommendedLists == UNION {[1..n -> Items] : n \in 0..MaxRec}

Range(s) == {s[i] : i \in 1..Len(s)}

\* k = k or len(recommended): None and 0 are both falsy
KOrLen(k, recommended) ==
    IF k = NoneK \/ k = <<0>> THEN Len(recommended) ELSE k[1]

\* precision_at_k, lines 45-50
precision_at_k(recommended, relevant, k0) ==
    LET k == KOrLen(k0, recommended)
        rec_k == Range(PySlice(recommended, 0, k))
        rel == relevant
    IN  IF k = 0 THEN Zero ELSE Frac(Cardinality(rec_k \cap rel), k)

\* recall_at_k dividing by the number of items retrieved
recall_over_retrieved(recommended, relevant, k0) ==
    LET k == KOrLen(k0, recommended)
        rec_k == Range(PySlice(recommended, 0, k))
        rel == relevant
    IN  IF rel = {} \/ rec_k = {} THEN Zero
        ELSE Frac(Cardinality(rec_k \cap rel), Cardinality(rec_k))

\* recall_at_k, lines 59-64
recall_at_k(recommended, relevant, k0) ==
    LET k == KOrLen(k0, recommended)
        rec_k == Range(PySlice(recommended, 0, k))
        rel == relevant
    IN  IF rel = {} THEN Zero ELSE Frac(Cardinality(rec_k \cap rel), Cardinality(rel))

(***************************************************************************)
(* DCG and NDCG.  1 / log2(i + 2) is irrational for most i; the model      *)
(* keeps it in millionths, rounded, so a DCG is an integer number of       *)
(* millionths of half grades.                                              *)
(***************************************************************************)
Grades == {0, 1, 2}

\* 1000000 / log2(i + 2) for i = 0, 1, 2, ...
InvLog2Millionths == <<1000000, 630930, 500000, 430677, 386853, 356207>>

RECURSIVE SumDiscounted(_, _)
SumDiscounted(grades, i) ==
    IF i > Len(grades) THEN 0
    ELSE grades[i] * InvLog2Millionths[i] + SumDiscounted(grades, i + 1)

\* dcg_at_k, lines 81-84
dcg_at_k(relevance_grades, k) ==
    LET grades == PySlice(relevance_grades, 0, k)
    IN  IF grades = << >> THEN 0 ELSE SumDiscounted(grades, 1)

\* sorted(grades, reverse=True)
RECURSIVE InsertGradeDesc(_, _)
InsertGradeDesc(g, s) ==
    IF s = << >> THEN <<g>>
    ELSE IF Head(s) < g THEN <<g>> \o s
    ELSE <<Head(s)>> \o InsertGradeDesc(g, Tail(s))

RECURSIVE SortedGradesFrom(_, _, _)
SortedGradesFrom(grades, i, acc) ==
    IF i > Len(grades) THEN acc
    ELSE SortedGradesFrom(grades, i + 1, InsertGradeDesc(grades[i], acc))

sorted_grades_reverse(grades) == SortedGradesFrom(grades, 1, << >>)

\* ndcg_at_k, lines 96-107, with the locals dcg and idcg
ndcg_at_k(recommended, relevance_fn, k0) ==
    LET k == KOrLen(k0, recommended)
        rec_k == PySlice(recommended, 0, k)
        grades == [p \in 1..Len(rec_k) |-> relevance_fn[rec_k[p]]]
        \* [relevance_fn(i) for i in range(len(recommended))]
        idcg_grades == PySlice(sorted_grades_reverse(
                           [p \in 1..Len(recommended) |-> relevance_fn[p - 1]]), 0, k)
        dcg == dcg_at_k(grades, k)
        idcg == dcg_at_k(idcg_grades, k)
    IN  [dcg |-> dcg, idcg |-> idcg,
         value |-> IF idcg <= 0 THEN Zero ELSE Frac(dcg, idcg)]

(***************************************************************************)
(* The relevance judge.                                                    *)
(***************************************************************************)
Chars == {"a", "A", " "}

TagStrings == UNION {[1..n -> Chars] : n \in 0..MaxTagLen}

IsSpace(c) == c = " "

\* str.lower on one character
LowerChar(c) == IF c = "A" THEN "a" ELSE c

lower(t) == [i \in 1..Len(t) |-> LowerChar(t[i])]

\* tags.strip(): leading and trailing whitespace removed
RECURSIVE lstrip(_)
lstrip(s) == IF s # << >> /\ IsSpace(Head(s)) THEN lstrip(Tail(s)) ELSE s

RECURSIVE rstrip(_)
rstrip(s) ==
    IF s # << >> /\ IsSpace(s[Len(s)]) THEN rstrip(SubSeq(s, 1, Len(s) - 1)) ELSE s

strip(s) == rstrip(lstrip(s))

\* tags.split(): the maximal runs of non-whitespace characters, in order;
\* cur is the run being read
RECURSIVE SplitFrom(_, _, _)
SplitFrom(s, i, cur) ==
    IF i > Len(s) THEN (IF cur = << >> THEN << >> ELSE <<cur>>)
    ELSE IF IsSpace(s[i])
         THEN (IF cur = << >> THEN << >> ELSE <<cur>>) \o SplitFrom(s, i + 1, << >>)
         ELSE SplitFrom(s, i + 1, Append(cur, s[i]))

split(s) == SplitFrom(s, 1, << >>)

\* _tag_set, lines 18-20, for a str argument
_tag_set(tags) ==
    IF strip(tags) = << >> THEN {}
    ELSE {lower(strip(t)) : t \in {u \in Range(split(tags)) : strip(u) # << >>}}

\* the overlap divided by the sum of the sizes instead of the size of the union
overlap_over_sum(query_tags, candidate_tags) ==
    LET a == _tag_set(query_tags)
        b == _tag_set(candidate_tags)
    IN  IF a = {} \/ b = {} THEN Zero
        ELSE Frac(Cardinality(a \cap b), Cardinality(a) + Cardinality(b))

\* relevance_score_tag_overlap, lines 33-36
relevance_score_tag_overlap(query_tags, candidate_tags) ==
    LET a == _tag_set(query_tags)
        b == _tag_set(candidate_tags)
    IN  IF a = {} \/ b = {} THEN Zero
        ELSE Frac(Cardinality(a \cap b), Cardinality(a \cup b))

(***************************************************************************)
(* The calls.                                                              *)
(***************************************************************************)
NotRun == << >>

NoValues == [precision |-> NotRun, recall |-> NotRun, ndcg |-> NotRun,
             score |-> NotRun]

PrecisionAtK ==
    /\ args.family = "ranked"
    /\ val.precision = NotRun
    /\ val' = [val EXCEPT !.precision =
                   precision_at_k(args.recommended, args.relevant, args.k)]
    /\ UNCHANGED <<csv, _new_df, _similarity, builds, ret, pc, frame, args>>

RecallAtK ==
    /\ args.family = "ranked"
    /\ val.recall = NotRun
    /\ val' = [val EXCEPT !.recall =
                   recall_at_k(args.recommended, args.relevant, args.k)]
    /\ UNCHANGED <<csv, _new_df, _similarity, builds, ret, pc, frame, args>>

NdcgAtK ==
    /\ args.family = "graded"
    /\ val.ndcg = NotRun
    /\ val' = [val EXCEPT !.ndcg =
                   ndcg_at_k(args.recommended, args.relevance_fn, args.k)]
    /\ UNCHANGED <<csv, _new_df, _similarity, builds, ret, pc, frame, args>>

RelevanceScoreTagOverlap ==
    /\ args.family = "tags"
    /\ val.score = NotRun
    /\ val' = [val EXCEPT !.score =
                   relevance_score_tag_overlap(args.query_tags, args.candidate_tags)]
    /\ UNCHANGED <<csv, _new_df, _similarity, builds, ret, pc, frame, args>>

RankedArgs ==
    [family : {"ranked"}, recommended : RecommendedLists, relevant : SUBSET Items,
     k : Ks]

GradedArgs ==
    [family : {"graded"}, recommended : RecommendedLists,
     relevance_fn : [Items -> Grades], k : Ks]

TagArgs == [family : {"tags"}, query_tags : TagStrings, candidate_tags : TagStrings]

InitMetrics ==
    /\ args \in RankedArgs \cup GradedArgs \cup TagArgs
    /\ val = NoValues
    /\ csv = Unused
    /\ _new_df = Unused
    /\ _similarity = Unused
    /\ builds = Unused
    /\ ret = Unused
    /\ pc = Unused
    /\ frame = Unused

NextMetrics ==
    \/ PrecisionAtK
    \/ RecallAtK
    \/ NdcgAtK
    \/ RelevanceScoreTagOverlap

SpecMetrics == InitMetrics /\ [][NextMetrics]_vars

(***************************************************************************)
(* Properties of the metrics (specification SpecMetrics).                  *)
(***************************************************************************)
Ran(v) == v # NotRun

\* C4: precision_at_k returns 0 whenever k == 0, for every recommended list
\* and every relevant set, also when k is passed explicitly as 0 and the
\* recommended list contains relevant items.
C4_PrecisionZeroAtKZero ==
    (args.family = "ranked" /\ Ran(val.precision) /\ args.k = <<0>>) =>
        val.precision = Zero

\* the grades of all catalog items, highest first
IdealGrades(relevance_fn) ==
    sorted_grades_reverse([p \in 1..Cardinality(Items) |-> relevance_fn[p - 1]])

\* the DCG of the k highest grades of the catalog
IdealDcg(relevance_fn, k) == dcg_at_k(PySlice(IdealGrades(relevance_fn), 0, k), k)

\* recommended lists the catalog's items by grade descending, cut at k
IsIdealOrdering(recommended, relevance_fn, k) ==
    /\ Len(recommended) = Min(k, Cardinality(Items))
    /\ \A p, q \in 1..Len(recommended) : p # q => recommended[p] # recommended[q]
    /\ [p \in 1..Len(recommended) |-> relevance_fn[recommended[p]]]
           = PySlice(IdealGrades(relevance_fn), 0, k)

\* C5: when recommended is the ideal ordering cut at k and the ideal DCG is
\* positive, ndcg_at_k returns 1.0, and the ideal DCG it divides by is that
\* of the k highest grades over all catalog items.
C5_IdealOrderingScoresOne ==
    (/\ args.family = "graded"
     /\ Ran(val.ndcg)
     /\ args.k # NoneK
     /\ IsIdealOrdering(args.recommended, args.relevance_fn, args.k[1])
     /\ IdealDcg(args.relevance_fn, args.k[1]) > 0) =>
        /\ val.ndcg.value = One
        /\ val.ndcg.idcg = IdealDcg(args.relevance_fn, args.k[1])

HasToken(tags) == \E i \in 1..Len(tags) : ~IsSpace(tags[i])

SelfCompared ==
    /\ args.family = "tags"
    /\ Ran(val.score)
    /\ args.query_tags = args.candidate_tags

\* C8: relevance_score_tag_overlap(tags, tags) is 1.0 for every tag string of
\* length >= 1, whitespace-only strings included, and 0.0 for the empty one.
C8_SelfOverlapOfAnyNonEmpty ==
    SelfCompared =>
        /\ Len(args.query_tags) >= 1 => val.score = One
        /\ Len(args.query_tags) = 0 => val.score = Zero

\* C8 as amended: relevance_score_tag_overlap(tags, tags) is 1.0 for every
\* tag string that holds a non-whitespace character, and 0.0 when tags is
\* empty or holds whitespace only.
C8_SelfOverlapOfTokens ==
    SelfCompared =>
        /\ HasToken(args.query_tags) => val.score = One
        /\ ~HasToken(args.query_tags) => val.score = Zero

\* a string of two tokens in different case around a blank is compared with
\* itself and scores 1.0
C8_Witness ==
    /\ SelfCompared
    /\ args.query_tags = <<"a", " ", "A">>
    /\ val.score = One

\* C10: when |rel| == k and every element of recommended[:k] is in rel,
\* precision_at_k and recall_at_k return the same value (k == 0 with an
\* empty rel included).
C10_PrecisionEqualsRecall ==
    (/\ args.family = "ranked"
     /\ Ran(val.precision)
     /\ Ran(val.recall)
     /\ args.k # NoneK
     /\ Cardinality(args.relevant) = args.k[1]
     /\ Range(PySlice(args.recommended, 0, args.k[1])) \subseteq args.relevant) =>
        val.precision = val.recall

\* k == 2 == |rel|, one item recommended, and it is relevant: both are 1/2
C10_Witness ==
    /\ args.family = "ranked"
    /\ Ran(val.precision)
    /\ Ran(val.recall)
    /\ args.k = <<2>>
    /\ Cardinality(args.relevant) = 2
    /\ Len(args.recommended) = 1
    /\ args.recommended[1] \in args.relevant
    /\ val.precision = <<1, 2>>
    /\ val.recall = <<1, 2>>

====
